---- MODULE Spec2Model ----
(***************************************************************************)
(* A model of the CertStream collector (certstream_db.py) and of its two  *)
(* certificate stores (sqlite_store.py, rocksdb_store.py).                *)
(*                                                                         *)
(* Python values are written as follows.  A str is a TLA+ string.  A list *)
(* is a sequence.  The timestamp scalar is one of the tags in PyScalars.  *)
(* None as the result of a lookup is the empty sequence <<>>, a found     *)
(* value v is <<v>>.  A JSON text is a sequence of tokens [t, v].         *)
(***************************************************************************)
EXTENDS Integers, Sequences, FiniteSets, TLC

\* ------------------------------------------------------------ bounds
\* Frames the transport delivers in one run.
MaxFrames == 2
\* Ticks of CURRENT_TIMESTAMP (one-second resolution) in one run.
MaxClock == 2
\* Receives on a closed transport that are counted (the counter saturates).
MaxDeadRecv == 2
\* store_certificate calls that fail in one run.
MaxFaults == 1
\* Direct calls on the store in one behaviour of StoreSpec.
MaxCalls == 3

\* The largest limit a caller hands to get_all_certificates.
MaxLimit == 2

\* Upserts each writer of a shared store makes.
MaxWrites == 2

\* ------------------------------------------------------------ inputs
Domain == {"a", "b"}

\* The all_domains lists a certificate_update frame carries.
DomainLists == {<<>>, <<"a">>, <<"a", "b">>, <<"b", "b">>}

\* The timestamp values of a frame: absent (None) or a number.
FrameTimestamps == {"None", "int1"}

\* "object" is a Python value json.dumps cannot represent (a set, a handle).
PyScalars == FrameTimestamps \cup {"object"}

Backends == {"sqlite", "rocksdb"}

\* ------------------------------------------------------------ RecordCodec
Tok(t, v) == [t |-> t, v |-> v]

Punct(c) == Tok("punct", c)

\* json.dumps of a scalar: None is null, a number is its digits.
ScalarText(x) ==
  CASE x = "None" -> Tok("null", "null")
    [] x = "int1" -> Tok("num", "1700000000")

\* json.loads of a scalar token.
ScalarValue(tok) ==
  CASE tok.t = "null" -> "None"
    [] tok.t = "num" /\ tok.v = "1700000000" -> "int1"

RECURSIVE DumpItems(_)
DumpItems(l) ==
  IF l = <<>> THEN <<>>
  ELSE IF Len(l) = 1 THEN <<Tok("str", l[1])>>
  ELSE <<Tok("str", l[1]), Punct(",")>> \o DumpItems(Tail(l))

\* json.dumps of a list of str.
DumpList(l) == <<Punct("[")>> \o DumpItems(l) \o <<Punct("]")>>

Key(k) == <<Tok("str", k), Punct(":")>>

\* What json.dumps cannot serialize raises TypeError.
Serializable(data) == data.timestamp # "object"

\* json.dumps(data) of a payload dict, keys in insertion order.
JsonDumps(data) ==
  <<Punct("{")>>
    \o Key("domains") \o DumpList(data.domains) \o <<Punct(",")>>
    \o Key("leaf_cert") \o <<Punct("{")>>
         \o Key("all_domains") \o DumpList(data.leaf_cert.all_domains)
         \o <<Punct("}"), Punct(",")>>
    \o Key("chain") \o DumpList(data.chain) \o <<Punct(",")>>
    \o Key("source") \o <<Punct("{")>>
         \o Key("name") \o <<Tok("str", data.source.name)>>
         \o <<Punct("}"), Punct(",")>>
    \o Key("timestamp") \o <<ScalarText(data.timestamp)>>
  \o <<Punct("}")>>

\* Position of the first token equal to tok at or after position i (0: none).
RECURSIVE Find(_, _, _)
Find(toks, tok, i) ==
  IF i > Len(toks) THEN 0
  ELSE IF toks[i] = tok THEN i
  ELSE Find(toks, tok, i + 1)

\* The str items of the JSON array that opens at position i.
RECURSIVE ParseItems(_, _)
ParseItems(toks, i) ==
  IF i > Len(toks) \/ toks[i] = Punct("]") THEN <<>>
  ELSE IF toks[i].t = "str" THEN <<toks[i].v>> \o ParseItems(toks, i + 1)
  ELSE ParseItems(toks, i + 1)

\* The value position of key k: the token after the key's colon.
ValueAt(toks, k, from) == Find(toks, Tok("str", k), from) + 2

\* Whether a stored text is a complete JSON object (json.loads succeeds).
Decodable(toks) ==
  /\ Len(toks) >= 2
  /\ toks[1] = Punct("{")
  /\ toks[Len(toks)] = Punct("}")

\* json.loads(text) of a stored payload.
JsonLoads(toks) ==
  LET d == ValueAt(toks, "domains", 1)
      l == ValueAt(toks, "leaf_cert", d)
      a == ValueAt(toks, "all_domains", l)
      c == ValueAt(toks, "chain", a)
      s == ValueAt(toks, "source", c)
      n == ValueAt(toks, "name", s)
      t == ValueAt(toks, "timestamp", n)
  IN [domains |-> ParseItems(toks, d + 1),
      leaf_cert |-> [all_domains |-> ParseItems(toks, a + 1)],
      chain |-> ParseItems(toks, c + 1),
      source |-> [name |-> toks[n].v],
      timestamp |-> ScalarValue(toks[t])]

\* str.encode() and bytes.decode(): the key bytes of a domain.
Encode(s) == <<"bytes", s>>

Decode(b) == b[2]

\* ------------------------------------------------------------ state
VARIABLES
  backend,        \* which CertificateStore the collector was given
  rows,           \* SQLite: the rows of table certificates
  kv,             \* RocksDB: the key/value entries
  clock,          \* CURRENT_TIMESTAMP
  pc,             \* where connect_and_store is
  running,        \* CertStreamCollector.running
  handle,         \* the websocket of the async with block
  transport,      \* the peer's side of the connection
  delivered,      \* frames the transport has delivered
  message,        \* the frame of the current loop iteration
  idx,            \* position of the for loop in all_domains
  message_count,  \* connect_and_store's message_count
  result,         \* how connect_and_store ended for its caller
  caught,         \* the exception connect_and_store's outer handlers caught
  calls,          \* history: the store_certificate calls of the current frame
  allOk,          \* history: no store_certificate call has failed so far
  nfaults,        \* history: store_certificate calls that met a fault
  expected,       \* history: per domain, the payload of the last frame naming it
  snap,           \* history: the store as it was when a repeated frame arrived
  repeat,         \* history: the current frame equals the one before it
  firstWrite,     \* history: per domain, the clock of its first successful upsert
  stopRecvs,      \* history: receives that ended while running was False
  deadRecvs,      \* history: receives that raised on a closed transport
  nupdates,       \* history: well-formed certificate_update frames delivered
  malformed,      \* history: frames delivered that are not a JSON mapping
  last,           \* the last direct call on the store and what it returned
  ncalls,         \* direct calls made so far
  putLog,         \* history: per domain, the last two payloads stored by direct calls
  listing,        \* the limit and the result of a get_all_certificates call
  recency,        \* history: domains by their last successful direct upsert
  dbLock,         \* RocksDB: the LOCK file of the database directory
  writers,        \* the writers that share the store, each inside one upsert
  wlock,          \* SQLite: the writer that holds the write lock (0: none)
  stored          \* history: per domain, the payloads writers have stored

storeVars == <<backend, rows, kv>>

pipeVars == <<pc, running, handle, transport, delivered, message, idx,
              message_count, result, caught>>

pipeHist == <<calls, expected, snap, repeat, stopRecvs, deadRecvs, nupdates,
              malformed>>

concVars == <<writers, wlock, stored>>

apiVars == <<last, ncalls, listing, recency, dbLock, concVars>>

vars == <<backend, rows, kv, clock, pc, running, handle, transport, delivered,
          message, idx, message_count, result, calls, allOk, nfaults, expected, snap,
          repeat, firstWrite, stopRecvs, deadRecvs, nupdates, malformed, last,
          ncalls, putLog, caught, listing, recency, dbLock, writers, wlock,
          stored>>

\* ------------------------------------------------------------ exceptions
\* The classes `except Exception` catches: everything raised here but
\* asyncio.CancelledError, which derives from BaseException.
IsException(e) == e \in {"Exception", "OperationalError", "TypeError",
                         "JSONDecodeError", "AttributeError", "RocksIOError",
                         "ConnectionClosed", "WebSocketException"}

\* What can go wrong inside one store_certificate call.
SqliteFaults == {"none", "connect", "execute", "commit"}

RocksFaults == {"none", "put"}

Faults(b) ==
  {f \in IF b = "sqlite" THEN SqliteFaults ELSE RocksFaults :
     f = "none" \/ nfaults < MaxFaults}

\* ------------------------------------------------------------ SQLite store
\* An upsert that appends the new text to the text the row already holds.
InsertAppend(table, domain, data_json, now) ==
  LET old == {r \in table : r.domain = domain}
      text == IF old = {} THEN data_json
              ELSE (CHOOSE r \in old : TRUE).data \o data_json
  IN {r \in table : r.domain # domain}
       \cup {[domain |-> domain, data |-> text,
              created_at |-> now, updated_at |-> now]}

\* INSERT OR IGNORE in place of INSERT OR REPLACE: an existing row is kept.
InsertOrIgnore(table, domain, data_json, now) ==
  IF \E r \in table : r.domain = domain THEN table
  ELSE table \cup {[domain |-> domain, data |-> data_json,
                    created_at |-> now, updated_at |-> now]}

\* A plain INSERT on a table without its primary key: the row of an earlier
\* upsert of the domain stays beside the new one.
InsertBeside(table, domain, data_json, now) ==
  table \cup {[domain |-> domain, data |-> data_json,
                created_at |-> now, updated_at |-> now]}

\* A replace that deletes every row, not only the row of the key.
InsertReplacingAll(table, domain, data_json, now) ==
  {[domain |-> domain, data |-> data_json,
    created_at |-> now, updated_at |-> now]}

\* INSERT OR REPLACE INTO certificates (domain, data, updated_at)
\* VALUES (?, ?, CURRENT_TIMESTAMP): a row with the same primary key is
\* deleted, the new row is inserted, and created_at, which the statement does
\* not name, takes its column default CURRENT_TIMESTAMP.
InsertOrReplace(table, domain, data_json, now) ==
  {r \in table : r.domain # domain}
    \cup {[domain |-> domain, data |-> data_json,
           created_at |-> now, updated_at |-> now]}

\* A try block whose INSERT is written through before commit() fails: the
\* failed call leaves its row behind.
SqliteStoreBodyPartial(table, domain, data, fault, now) ==
  IF fault = "connect" THEN [raised |-> "OperationalError", rows |-> table]
  ELSE IF ~Serializable(data) THEN [raised |-> "TypeError", rows |-> table]
  ELSE IF fault = "execute" THEN [raised |-> "OperationalError", rows |-> table]
  ELSE IF fault = "commit"
       THEN [raised |-> "OperationalError",
             rows |-> InsertOrReplace(table, domain, JsonDumps(data), now)]
  ELSE [raised |-> "none",
        rows |-> InsertOrReplace(table, domain, JsonDumps(data), now)]

\* The try block of store_certificate: the exception it raises ("none" when
\* it runs to `return True`) and the committed table it leaves.
SqliteStoreBody(table, domain, data, fault, now) ==
  IF fault = "connect" THEN [raised |-> "OperationalError", rows |-> table]
  ELSE IF ~Serializable(data) THEN [raised |-> "TypeError", rows |-> table]
  ELSE IF fault = "execute" THEN [raised |-> "OperationalError", rows |-> table]
  ELSE IF fault = "commit" THEN [raised |-> "OperationalError", rows |-> table]
  ELSE [raised |-> "none",
        rows |-> InsertOrReplace(table, domain, JsonDumps(data), now)]

\* store_certificate with json.dumps ahead of the try block: its TypeError
\* leaves the method.
SqliteStoreCertificateNoCatch(table, domain, data, fault, now) ==
  LET b == SqliteStoreBody(table, domain, data, fault, now)
  IN IF b.raised = "none" THEN [ret |-> "True", rows |-> b.rows]
     ELSE IF b.raised = "TypeError" THEN [ret |-> "raise", rows |-> b.rows]
     ELSE [ret |-> "False", rows |-> b.rows]

\* SQLiteCertificateStore.store_certificate: ret is "True", "False" or, were
\* an exception to leave the method, "raise".
SqliteStoreCertificate(table, domain, data, fault, now) ==
  LET b == SqliteStoreBody(table, domain, data, fault, now)
  IN IF b.raised = "none" THEN [ret |-> "True", rows |-> b.rows]
     ELSE IF IsException(b.raised) THEN [ret |-> "False", rows |-> b.rows]
     ELSE [ret |-> "raise", rows |-> b.rows]

\* SQLiteCertificateStore.get_certificate: SELECT data ... WHERE domain = ?,
\* fetchone, json.loads; any exception gives None.
SqliteGetCertificate(table, domain) ==
  LET found == {r \in table : r.domain = domain}
  IN IF found = {} THEN <<>>
     ELSE LET r == CHOOSE x \in found : TRUE
          IN IF Decodable(r.data) THEN <<JsonLoads(r.data)>> ELSE <<>>

\* ------------------------------------------------------------ RocksDB store
\* A put that keeps the entry a key already has.
PutIfAbsent(db, key, value) ==
  IF \E e \in db : e.key = key THEN db
  ELSE db \cup {[key |-> key, value |-> value]}

\* DB.put(key, value): the entry of the key is replaced.
Put(db, key, value) ==
  {e \in db : e.key # key} \cup {[key |-> key, value |-> value]}

RocksStoreBody(db, domain, data, fault) ==
  IF ~Serializable(data) THEN [raised |-> "TypeError", kv |-> db]
  ELSE IF fault = "put" THEN [raised |-> "RocksIOError", kv |-> db]
  ELSE [raised |-> "none",
        kv |-> Put(db, Encode(domain), Encode(JsonDumps(data)))]

\* store_certificate without its except clause: a failure leaves the method.
RocksStoreCertificateNoCatch(db, domain, data, fault) ==
  LET b == RocksStoreBody(db, domain, data, fault)
  IN IF b.raised = "none" THEN [ret |-> "True", kv |-> b.kv]
     ELSE [ret |-> "raise", kv |-> b.kv]

\* RocksDBCertificateStore.store_certificate.
RocksStoreCertificate(db, domain, data, fault) ==
  LET b == RocksStoreBody(db, domain, data, fault)
  IN IF b.raised = "none" THEN [ret |-> "True", kv |-> b.kv]
     ELSE IF IsException(b.raised) THEN [ret |-> "False", kv |-> b.kv]
     ELSE [ret |-> "raise", kv |-> b.kv]

\* RocksDBCertificateStore.get_certificate.
RocksGetCertificate(db, domain) ==
  LET found == {e \in db : e.key = Encode(domain)}
  IN IF found = {} THEN <<>>
     ELSE LET e == CHOOSE x \in found : TRUE
          IN IF Decodable(Decode(e.value)) THEN <<JsonLoads(Decode(e.value))>>
             ELSE <<>>

\* ------------------------------------------------------------ the store in use
\* self.store.store_certificate(domain, data) on the configured backend.
StoreCertificate(domain, data, fault, now) ==
  IF backend = "sqlite"
  THEN LET r == SqliteStoreCertificate(rows, domain, data, fault, now)
       IN [ret |-> r.ret, rows |-> r.rows, kv |-> kv]
  ELSE LET r == RocksStoreCertificate(kv, domain, data, fault)
       IN [ret |-> r.ret, rows |-> rows, kv |-> r.kv]

\* self.store.get_certificate(domain) on the configured backend.
GetCertificate(domain) ==
  IF backend = "sqlite" THEN SqliteGetCertificate(rows, domain)
  ELSE RocksGetCertificate(kv, domain)

\* The domains that have a record.
StoredDomains ==
  IF backend = "sqlite" THEN {r.domain : r \in rows}
  ELSE {Decode(e.key) : e \in kv}

\* The stored payload text per domain, whatever the backend.
StoredData(table, db) ==
  {<<r.domain, r.data>> : r \in table}
    \cup {<<Decode(e.key), Decode(e.value)>> : e \in db}

NoFirstWrite == [d \in Domain |-> 0]

Nothing == [d \in Domain |-> <<>>]

\* firstWrite after a store_certificate call on domain that returned ret.
FirstWriteAfter(domain, ret, now) ==
  IF ret = "True" /\ firstWrite[domain] = 0
  THEN [firstWrite EXCEPT ![domain] = now]
  ELSE firstWrite

\* CURRENT_TIMESTAMP as a statement reads it: the time of the last reading,
\* or later.
Now == {t \in clock..(clock + 1) : t <= MaxClock}

\* ------------------------------------------------------------ frames
\* A text frame of the stream, by what its text says.
Frame(kind, all_domains, timestamp) ==
  [kind |-> kind, all_domains |-> all_domains, timestamp |-> timestamp]

\* Before the first receive there is no frame.
NoMessage == Frame("none", <<>>, "None")

\* Frames that carry no certificate: text that is not JSON, a JSON array, a
\* heartbeat, an unknown message_type, no message_type at all, and a
\* certificate_update whose "data" is not a mapping.
OtherFrames ==
  {Frame(k, <<>>, "None") :
     k \in {"invalid_json", "json_list", "heartbeat", "unknown_type", "no_type",
            "update_bad_data"}}

UpdateFrames ==
  {Frame("certificate_update", l, t) : l \in DomainLists, t \in FrameTimestamps}

Frames == OtherFrames \cup UpdateFrames

\* data = json.loads(message): the exception it raises or the value it gives.
FrameLoads(m) ==
  [raised |-> IF m.kind = "invalid_json" THEN "JSONDecodeError" ELSE "none",
   is_dict |-> m.kind \notin {"invalid_json", "json_list"},
   message_type |->
     CASE m.kind \in {"certificate_update", "update_bad_data"} -> <<"certificate_update">>
       [] m.kind = "heartbeat" -> <<"heartbeat">>
       [] m.kind = "unknown_type" -> <<"unknown">>
       [] OTHER -> <<>>,
   data_is_dict |-> m.kind = "certificate_update",
   all_domains |-> m.all_domains,
   chain |-> <<>>,
   source |-> [name |-> "test"],
   timestamp |-> m.timestamp]

\* The payload with "domains" read from a key the leaf certificate lacks.
BuildPayloadWrongKey(data) ==
  [domains |-> <<>>,
   leaf_cert |-> [all_domains |-> data.all_domains],
   chain |-> data.chain,
   source |-> data.source,
   timestamp |-> data.timestamp]

\* A payload whose "domains" holds only the first name of the certificate.
BuildPayloadHeadOnly(data) ==
  [domains |-> IF data.all_domains = <<>> THEN <<>>
               ELSE <<Head(data.all_domains)>>,
   leaf_cert |-> [all_domains |-> data.all_domains],
   chain |-> data.chain,
   source |-> data.source,
   timestamp |-> data.timestamp]

\* The dict connect_and_store passes to store_certificate.
BuildPayload(data) ==
  [domains |-> data.all_domains,
   leaf_cert |-> [all_domains |-> data.all_domains],
   chain |-> data.chain,
   source |-> data.source,
   timestamp |-> data.timestamp]

\* A dispatch whose update branch takes every frame that is no heartbeat.
DispatchElse(m) ==
  LET data == FrameLoads(m)
  IN IF data.raised # "none" THEN [raised |-> data.raised, branch |-> "none"]
     ELSE IF ~data.is_dict THEN [raised |-> "AttributeError", branch |-> "none"]
     ELSE IF data.message_type = <<"heartbeat">>
          THEN [raised |-> "none", branch |-> "heartbeat"]
     ELSE [raised |-> "none", branch |-> "certificate_update"]

\* The body of the inner try up to the for loop: the exception raised, or
\* the branch taken on message_type.
Dispatch(m) ==
  LET data == FrameLoads(m)
  IN IF data.raised # "none" THEN [raised |-> data.raised, branch |-> "none"]
     ELSE IF ~data.is_dict THEN [raised |-> "AttributeError", branch |-> "none"]
     ELSE IF data.message_type = <<"certificate_update">>
          THEN IF data.data_is_dict
               THEN [raised |-> "none", branch |-> "certificate_update"]
               ELSE [raised |-> "AttributeError", branch |-> "none"]
     ELSE IF data.message_type = <<"heartbeat">>
          THEN [raised |-> "none", branch |-> "heartbeat"]
     ELSE [raised |-> "none", branch |-> "ignored"]

\* Handlers that break out of the loop on invalid JSON.
AfterRaiseBreak(e) ==
  IF e = "JSONDecodeError" THEN "Draining"
  ELSE IF IsException(e) THEN "While" ELSE "Draining"

\* Handlers that go back to connecting when the connection is lost.
AfterRaiseReconnect(e) ==
  IF e = "ConnectionClosed" THEN "Connecting"
  ELSE IF IsException(e) THEN "While" ELSE "Draining"

\* Where the loop goes after the inner try's handlers: JSONDecodeError and
\* any other Exception are logged and the loop goes on; CancelledError breaks.
AfterRaise(e) == IF IsException(e) THEN "While" ELSE "Draining"

Range(seq) == {seq[i] : i \in 1..Len(seq)}

\* The payload a certificate_update frame stands for, read off the frame.
FramePayload(m) ==
  [domains |-> m.all_domains,
   leaf_cert |-> [all_domains |-> m.all_domains],
   chain |-> <<>>,
   source |-> [name |-> "test"],
   timestamp |-> m.timestamp]

\* expected after frame m: the domains m names now expect m's payload.
ExpectedAfter(exp, m) ==
  [d \in Domain |->
     IF m.kind = "certificate_update" /\ d \in Range(m.all_domains)
     THEN <<FramePayload(m)>>
     ELSE exp[d]]

\* Every store_certificate call of the frame just processed returned True.
FrameOk ==
  /\ Len(calls) = Len(message.all_domains)
  /\ \A i \in 1..Len(calls) : calls[i].ret = "True"

Streaming == pc \in {"While", "Recv", "For"}

Min(a, b) == IF a < b THEN a ELSE b

\* ------------------------------------------------------------ the collector
NoCall == [op |-> "none", domain |-> "a", data |-> FramePayload(NoMessage),
           fault |-> "none", ret |-> "none"]

\* No get_all_certificates call has returned.
NoListing == [limit |-> 0, result |-> <<>>]

\* The writers that share one store.
Writers == {1, 2}

\* A writer between two upserts.
IdleWriter == [pc |-> "idle", domain |-> "a", data |-> NoCall.data,
               text |-> <<>>, txn |-> {}, ret |-> "none", n |-> 0]

Init ==
  /\ backend \in Backends
  /\ rows = {}
  /\ kv = {}
  /\ clock = 1
  /\ pc = "Disconnected"
  /\ running = TRUE
  /\ handle = "none"
  /\ transport = "open"
  /\ delivered = 0
  /\ message = NoMessage
  /\ idx = 1
  /\ message_count = 0
  /\ result = "pending"
  /\ caught = "none"
  /\ calls = <<>>
  /\ allOk = TRUE
  /\ nfaults = 0
  /\ expected = Nothing
  /\ snap = <<{}, {}>>
  /\ repeat = FALSE
  /\ firstWrite = NoFirstWrite
  /\ stopRecvs = 0
  /\ deadRecvs = 0
  /\ nupdates = 0
  /\ malformed = 0
  /\ last = NoCall
  /\ ncalls = 0
  /\ putLog = Nothing
  /\ listing = NoListing
  /\ recency = <<>>
  /\ dbLock = IF backend = "rocksdb" THEN "held" ELSE "none"
  /\ writers = [w \in Writers |-> IdleWriter]
  /\ wlock = 0
  /\ stored = [d \in Domain |-> {}]

\* _signal_handler: SIGINT sets running to False.
SignalHandler ==
  /\ pc # "Closed"
  /\ running
  /\ running' = FALSE
  /\ UNCHANGED <<storeVars, clock, pc, handle, transport, delivered, message,
                 idx, message_count, result, caught, pipeHist, allOk, nfaults, firstWrite,
                 apiVars, putLog>>

\* main awaits collector.connect_and_store().
Start ==
  /\ pc = "Disconnected"
  /\ pc' = "Connecting"
  /\ UNCHANGED <<storeVars, clock, running, handle, transport, delivered,
                 message, idx, message_count, result, caught, pipeHist, allOk,
                 nfaults, firstWrite, apiVars, putLog>>

\* A connect_and_store without its outer handlers: a failed handshake leaves
\* the coroutine as an exception.
ConnectReraises ==
  /\ pc = "Connecting"
  /\ \E outcome \in {"connected", "WebSocketException", "OSError",
                     "CancelledError"} :
       IF outcome = "connected"
       THEN /\ handle' = "open"
            /\ pc' = "While"
            /\ UNCHANGED <<transport, result, caught>>
       ELSE /\ pc' = "Closed"
            /\ transport' = "closed"
            /\ result' = "raised"
            /\ caught' = "none"
            /\ UNCHANGED handle
  /\ UNCHANGED <<storeVars, clock, running, delivered, message, idx,
                 message_count, pipeHist, allOk, nfaults, firstWrite, apiVars, putLog>>

\* async with websockets.connect(url): the handshake succeeds, or it raises
\* and the outer handlers log it; the finally clause runs and the coroutine
\* returns.
Connect ==
  /\ pc = "Connecting"
  /\ \E outcome \in {"connected", "WebSocketException", "OSError",
                     "CancelledError"} :
       IF outcome = "connected"
       THEN /\ handle' = "open"
            /\ pc' = "While"
            /\ UNCHANGED <<transport, result, caught>>
       ELSE /\ pc' = "Closed"
            /\ transport' = "closed"
            /\ result' = "returned"
            /\ caught' = outcome
            /\ UNCHANGED handle
  /\ UNCHANGED <<storeVars, clock, running, delivered, message, idx,
                 message_count, pipeHist, allOk, nfaults, firstWrite, apiVars, putLog>>

\* A loop head that does not consult the flag.
WhileIgnoresFlag ==
  /\ pc = "While"
  /\ pc' = "Recv"
  /\ UNCHANGED <<storeVars, clock, running, handle, transport, delivered,
                 message, idx, message_count, result, caught, pipeHist, allOk, nfaults,
                 firstWrite, apiVars, putLog>>

\* while self.running:
While ==
  /\ pc = "While"
  /\ pc' = IF running THEN "Recv" ELSE "Draining"
  /\ UNCHANGED <<storeVars, clock, running, handle, transport, delivered,
                 message, idx, message_count, result, caught, pipeHist, allOk,
                 nfaults, firstWrite, apiVars, putLog>>

\* message = await websocket.recv() returns frame m; json.loads and the
\* message_type branches up to the head of the for loop.
RecvFrame ==
  /\ pc = "Recv"
  /\ transport = "open"
  /\ delivered < MaxFrames
  /\ \E m \in Frames :
       LET d == Dispatch(m)
       IN /\ message' = m
          /\ pc' = IF d.raised # "none" THEN AfterRaise(d.raised)
                   ELSE IF d.branch = "certificate_update" THEN "For"
                   ELSE "While"
          /\ repeat' = (m = message /\ m.kind = "certificate_update" /\ FrameOk)
          /\ snap' = IF m = message /\ m.kind = "certificate_update" /\ FrameOk
                     THEN <<rows, kv>> ELSE <<{}, {}>>
          /\ expected' = ExpectedAfter(expected, m)
          /\ nupdates' = IF m.kind = "certificate_update"
                         THEN nupdates + 1 ELSE nupdates
          /\ malformed' = IF m.kind \in {"invalid_json", "json_list"}
                          THEN malformed + 1 ELSE malformed
  /\ delivered' = delivered + 1
  /\ idx' = 1
  /\ calls' = <<>>
  /\ stopRecvs' = IF running THEN stopRecvs ELSE stopRecvs + 1
  /\ UNCHANGED <<storeVars, clock, running, handle, transport, message_count,
                 result, caught, deadRecvs, allOk, nfaults, firstWrite, apiVars, putLog>>

\* await websocket.recv() raises ConnectionClosed: the peer closed, or the
\* connection was already closed.  The inner `except Exception` logs it.
RecvClosed ==
  /\ pc = "Recv"
  /\ transport' = "closed"
  /\ pc' = AfterRaise("ConnectionClosed")
  /\ deadRecvs' = Min(deadRecvs + 1, MaxDeadRecv)
  /\ stopRecvs' = IF running THEN stopRecvs ELSE stopRecvs + 1
  /\ UNCHANGED <<storeVars, clock, running, handle, delivered, message, idx,
                 message_count, result, caught, calls, expected, snap, repeat,
                 nupdates, malformed, allOk,
                 nfaults, firstWrite, apiVars, putLog>>

\* The task is cancelled while it awaits recv(): CancelledError, break.
RecvCancelled ==
  /\ pc = "Recv"
  /\ pc' = AfterRaise("CancelledError")
  /\ UNCHANGED <<storeVars, clock, running, handle, transport, delivered,
                 message, idx, message_count, result, caught, pipeHist, allOk,
                 nfaults, firstWrite, apiVars, putLog>>

\* A for loop that runs over reversed(all_domains).
ForStepReversed ==
  /\ pc = "For"
  /\ idx <= Len(FrameLoads(message).all_domains)
  /\ \E fault \in Faults(backend), now \in Now :
       LET data == FrameLoads(message)
           domain == data.all_domains[Len(data.all_domains) - idx + 1]
           payload == BuildPayload(data)
           r == StoreCertificate(domain, payload, fault, now)
       IN /\ clock' = now
          /\ rows' = r.rows
          /\ kv' = r.kv
          /\ calls' = Append(calls, [domain |-> domain, data |-> payload, ret |-> r.ret])
          /\ allOk' = (allOk /\ r.ret = "True")
          /\ nfaults' = IF fault = "none" THEN nfaults ELSE nfaults + 1
          /\ firstWrite' = FirstWriteAfter(domain, r.ret, now)
          /\ IF r.ret = "raise"
             THEN pc' = AfterRaise("Exception") /\ idx' = idx
             ELSE pc' = "For" /\ idx' = idx + 1
  /\ UNCHANGED <<backend, running, handle, transport, delivered, message,
                 message_count, result, caught, expected, snap, repeat, stopRecvs,
                 deadRecvs, nupdates, malformed, apiVars, putLog>>

\* One iteration of `for domain in all_domains`: print, store_certificate.
\* An exception leaving store_certificate would end the frame in the inner
\* `except Exception`.
ForStep ==
  /\ pc = "For"
  /\ idx <= Len(FrameLoads(message).all_domains)
  /\ \E fault \in Faults(backend), now \in Now :
       LET data == FrameLoads(message)
           domain == data.all_domains[idx]
           payload == BuildPayload(data)
           r == StoreCertificate(domain, payload, fault, now)
       IN /\ clock' = now
          /\ rows' = r.rows
          /\ kv' = r.kv
          /\ calls' = Append(calls, [domain |-> domain, data |-> payload, ret |-> r.ret])
          /\ allOk' = (allOk /\ r.ret = "True")
          /\ nfaults' = IF fault = "none" THEN nfaults ELSE nfaults + 1
          /\ firstWrite' = FirstWriteAfter(domain, r.ret, now)
          /\ IF r.ret = "raise"
             THEN pc' = AfterRaise("Exception") /\ idx' = idx
             ELSE pc' = "For" /\ idx' = idx + 1
  /\ UNCHANGED <<backend, running, handle, transport, delivered, message,
                 message_count, result, caught, expected, snap, repeat, stopRecvs,
                 deadRecvs, nupdates, malformed, apiVars, putLog>>

\* The for loop is exhausted: message_count += 1.
ForDone ==
  /\ pc = "For"
  /\ idx > Len(FrameLoads(message).all_domains)
  /\ message_count' = message_count + 1
  /\ pc' = "While"
  /\ UNCHANGED <<storeVars, clock, running, handle, transport, delivered,
                 message, idx, result, caught, pipeHist, allOk, nfaults, firstWrite, apiVars,
                 putLog>>

\* The loop is left: the async with block releases the websocket, the
\* finally clause logs, connect_and_store returns.
Drain ==
  /\ pc = "Draining"
  /\ handle' = "released"
  /\ pc' = "Closed"
  /\ result' = "returned"
  /\ UNCHANGED <<storeVars, clock, running, transport, delivered, message, idx,
                 message_count, caught, pipeHist, allOk, nfaults, firstWrite, apiVars, putLog>>

Next ==
  \/ SignalHandler
  \/ Start
  \/ Connect
  \/ While
  \/ RecvFrame
  \/ RecvClosed
  \/ RecvCancelled
  \/ ForStep
  \/ ForDone
  \/ Drain

Spec == Init /\ [][Next]_vars

\* The steps of connect_and_store itself.
PipelineStep ==
  \/ Start
  \/ Connect
  \/ While
  \/ RecvFrame
  \/ RecvClosed
  \/ RecvCancelled
  \/ ForStep
  \/ ForDone
  \/ Drain

\* ------------------------------------------------------------ direct calls
\* The payloads a caller of the store hands to store_certificate.
ApiPayloads ==
  {[domains |-> l, leaf_cert |-> [all_domains |-> l], chain |-> <<>>,
    source |-> [name |-> "test"], timestamp |-> t] :
     l \in {<<"a">>, <<"a", "b">>}, t \in PyScalars}

\* The last payload a direct call stored for d, None if there is none.
LastPut(d) == IF putLog[d] = <<>> THEN <<>> ELSE <<putLog[d][Len(putLog[d])]>>

\* putLog after a successful store: the last two payloads are kept.
PutLogAfter(d, data) ==
  [putLog EXCEPT ![d] = IF @ = <<>> THEN <<data>> ELSE <<@[Len(@)], data>>]

\* The limits a caller hands to get_all_certificates.
Limits == -1..MaxLimit

\* ORDER BY updated_at without DESC: the oldest rows first.
RECURSIVE OrderByUpdatedAtAsc(_)
OrderByUpdatedAtAsc(S) ==
  IF S = {} THEN {<<>>}
  ELSE UNION {{<<r>> \o rest : rest \in OrderByUpdatedAtAsc(S \ {r})} :
                r \in {x \in S : \A y \in S : x.updated_at <= y.updated_at}}

\* The orders in which ORDER BY updated_at DESC may return the rows of S:
\* rows of equal updated_at come in either order.
RECURSIVE OrderByUpdatedAtDesc(_)
OrderByUpdatedAtDesc(S) ==
  IF S = {} THEN {<<>>}
  ELSE UNION {{<<r>> \o rest : rest \in OrderByUpdatedAtDesc(S \ {r})} :
                r \in {x \in S : \A y \in S : y.updated_at <= x.updated_at}}

\* LIMIT ?: the first n rows; a negative limit is no limit.
Limit(seq, n) == IF n < 0 \/ n >= Len(seq) THEN seq ELSE SubSeq(seq, 1, n)

\* SQLiteCertificateStore.get_all_certificates: the lists it may return.
\* json.loads failing on one fetched row leaves the list comprehension, and
\* the except clause returns [].
SqliteGetAllCertificates(table, limit) ==
  {IF \E i \in 1..Len(sel) : ~Decodable(sel[i].data) THEN <<>>
   ELSE [i \in 1..Len(sel) |->
           [domain |-> sel[i].domain, data |-> JsonLoads(sel[i].data),
            created_at |-> sel[i].created_at,
            updated_at |-> sel[i].updated_at]] :
     sel \in {Limit(o, limit) : o \in OrderByUpdatedAtDesc(table)}}

\* The keys in the order of the RocksDB iterator (bytewise).
KeyOrder == <<"a", "b">>

\* iteritems() after seek_to_first(): the entries of db in key order.
RECURSIVE IterItems(_, _)
IterItems(db, i) ==
  IF i > Len(KeyOrder) THEN <<>>
  ELSE LET found == {e \in db : e.key = Encode(KeyOrder[i])}
       IN (IF found = {} THEN <<>> ELSE <<CHOOSE e \in found : TRUE>>)
            \o IterItems(db, i + 1)

\* A scan that tests the count after the limit has been passed.
LoopEndsLate(count, limit) == count > limit

\* if count >= limit: break
LoopEnds(count, limit) == count >= limit

\* The for loop of RocksDBCertificateStore.get_all_certificates: an entry
\* that does not decode is skipped.
RECURSIVE RocksScan(_, _, _, _)
RocksScan(items, limit, count, certificates) ==
  IF items = <<>> \/ LoopEnds(count, limit) THEN certificates
  ELSE LET e == Head(items)
       IN IF Decodable(Decode(e.value))
          THEN RocksScan(Tail(items), limit, count + 1,
                         Append(certificates,
                                [domain |-> Decode(e.key),
                                 data |-> JsonLoads(Decode(e.value))]))
          ELSE RocksScan(Tail(items), limit, count, certificates)

\* RocksDBCertificateStore.get_all_certificates.
RocksGetAllCertificates(db, limit) == RocksScan(IterItems(db, 1), limit, 0, <<>>)

\* self.store.get_all_certificates(limit): the lists it may return.
GetAllCertificates(limit) ==
  IF backend = "sqlite" THEN SqliteGetAllCertificates(rows, limit)
  ELSE {RocksGetAllCertificates(kv, limit)}

\* SQLiteCertificateStore.init_database: CREATE TABLE IF NOT EXISTS keeps an
\* existing table and its rows; the WAL pragma changes no row.
SqliteInitDatabase(table) == [raised |-> "none", rows |-> table]

\* RocksDBCertificateStore.init_database: rocksdb.DB(path, opts) takes the
\* LOCK file of the directory and fails while a handle holds it; the except
\* clause logs and re-raises.
RocksInitDatabase(lock) ==
  IF lock = "held" THEN [raised |-> "RocksIOError", lock |-> lock]
  ELSE [raised |-> "none", lock |-> "held"]

\* A store object exists: its constructor has returned and, for RocksDB,
\* its handle has not been released.
Alive == backend = "rocksdb" => dbLock = "held"

\* recency after a successful direct upsert of d.
RecencyAfter(d) == Append(SelectSeq(recency, LAMBDA x : x # d), d)

\* A caller runs store.store_certificate(d, data).
ApiStore ==
  /\ ncalls < MaxCalls
  /\ Alive
  /\ \E d \in Domain, data \in ApiPayloads, fault \in Faults(backend), now \in Now :
       LET r == StoreCertificate(d, data, fault, now)
       IN /\ clock' = now
          /\ rows' = r.rows
          /\ kv' = r.kv
          /\ last' = [op |-> "store", domain |-> d, data |-> data,
                      fault |-> fault, ret |-> r.ret]
          /\ putLog' = IF r.ret = "True" THEN PutLogAfter(d, data) ELSE putLog
          /\ recency' = IF r.ret = "True" THEN RecencyAfter(d) ELSE recency
          /\ allOk' = (allOk /\ r.ret = "True")
          /\ nfaults' = IF fault = "none" THEN nfaults ELSE nfaults + 1
          /\ firstWrite' = FirstWriteAfter(d, r.ret, now)
  /\ ncalls' = ncalls + 1
  /\ listing' = NoListing
  /\ UNCHANGED <<backend, pipeVars, pipeHist, dbLock, concVars>>

\* A caller runs store.get_certificate(d).
ApiGet ==
  /\ ncalls < MaxCalls
  /\ Alive
  /\ \E d \in Domain :
       LET g == GetCertificate(d)
       IN last' = [op |-> "get", domain |-> d,
                   data |-> IF g = <<>> THEN NoCall.data ELSE g[1],
                   fault |-> "none",
                   ret |-> IF g = <<>> THEN "None" ELSE "found"]
  /\ ncalls' = ncalls + 1
  /\ listing' = NoListing
  /\ UNCHANGED <<storeVars, clock, pipeVars, pipeHist, allOk, nfaults,
                 firstWrite, putLog, recency, dbLock, concVars>>

\* A caller runs store.get_all_certificates(limit).
ApiList ==
  /\ ncalls < MaxCalls
  /\ Alive
  /\ \E limit \in Limits :
       \E res \in GetAllCertificates(limit) :
         listing' = [limit |-> limit, result |-> res]
  /\ last' = [NoCall EXCEPT !.op = "list", !.ret = "list"]
  /\ ncalls' = ncalls + 1
  /\ UNCHANGED <<storeVars, clock, pipeVars, pipeHist, allOk, nfaults,
                 firstWrite, putLog, recency, dbLock, concVars>>

\* init_database runs again for the path of the store: on the store object
\* itself, or in the constructor of a new store object.
ApiInit ==
  /\ ncalls < MaxCalls
  /\ \E who \in {"same", "new"} :
       /\ who = "same" => Alive
       /\ IF backend = "sqlite"
          THEN LET r == SqliteInitDatabase(rows)
               IN /\ rows' = r.rows
                  /\ last' = [NoCall EXCEPT !.op = "init", !.fault = who,
                                            !.ret = "ok"]
                  /\ UNCHANGED dbLock
          ELSE LET r == RocksInitDatabase(dbLock)
               IN /\ dbLock' = r.lock
                  /\ last' = [NoCall EXCEPT !.op = "init", !.fault = who,
                                !.ret = IF r.raised = "none" THEN "ok"
                                        ELSE "raise"]
                  /\ UNCHANGED rows
  /\ ncalls' = ncalls + 1
  /\ listing' = NoListing
  /\ UNCHANGED <<backend, kv, clock, pipeVars, pipeHist, allOk, nfaults,
                 firstWrite, putLog, recency, concVars>>

\* The RocksDB store object is collected: __del__ closes the handle, which
\* releases the LOCK file.
ApiDel ==
  /\ backend = "rocksdb"
  /\ dbLock = "held"
  /\ dbLock' = "free"
  /\ last' = [NoCall EXCEPT !.op = "del"]
  /\ listing' = NoListing
  /\ UNCHANGED <<storeVars, clock, pipeVars, pipeHist, allOk, nfaults,
                 firstWrite, putLog, recency, ncalls, concVars>>

StoreNext ==
  \/ ApiStore
  \/ ApiGet
  \/ ApiList
  \/ ApiInit
  \/ ApiDel

StoreSpec == Init /\ [][StoreNext]_vars

\* ------------------------------------------------------------ damaged records
\* A stored text cut short: what is left is no complete JSON document.
Truncate(text) == SubSeq(text, 1, Len(text) - 1)

\* Whether a row or entry holds a text that json.loads accepts.
RecordDecodes(rec) ==
  Decodable(IF backend = "sqlite" THEN rec.data ELSE Decode(rec.value))

\* The file of the store is damaged outside the store's methods: the text of
\* one record is cut short.
Corrupt ==
  /\ \E d \in Domain :
       IF backend = "sqlite"
       THEN /\ \E r \in rows :
                 /\ r.domain = d
                 /\ Decodable(r.data)
                 /\ rows' = (rows \ {r})
                              \cup {[r EXCEPT !.data = Truncate(r.data)]}
            /\ UNCHANGED kv
       ELSE /\ \E e \in kv :
                 /\ e.key = Encode(d)
                 /\ Decodable(Decode(e.value))
                 /\ kv' = (kv \ {e})
                            \cup {[e EXCEPT
                                     !.value = Encode(Truncate(Decode(e.value)))]}
            /\ UNCHANGED rows
  /\ last' = [NoCall EXCEPT !.op = "corrupt"]
  /\ listing' = NoListing
  /\ UNCHANGED <<backend, clock, pipeVars, pipeHist, allOk, nfaults,
                 firstWrite, putLog, recency, dbLock, ncalls, concVars>>

ScanNext ==
  \/ ApiStore
  \/ ApiList
  \/ Corrupt

ScanSpec == Init /\ [][ScanNext]_vars

\* ------------------------------------------------------------ shared store
\* The payloads the writers store.
ConcPayloads == {p \in ApiPayloads : p.timestamp = "int1"}

\* What the steps of a writer leave alone.
restVars == <<pipeVars, pipeHist, allOk, nfaults, putLog, last, ncalls,
              listing, recency, dbLock>>

\* Writers that take no write lock.
NoWriteLock(w) == TRUE

\* SQLite lets one connection write at a time: the write lock is free, or
\* the writer's own.
WriteLockFree(w) == wlock \in {0, w}

\* Writer w enters store_certificate(d, data): it connects (SQLite) and
\* serializes the payload.
WCall(w) ==
  /\ writers[w].pc = "idle"
  /\ writers[w].n < MaxWrites
  /\ \E d \in Domain, data \in ConcPayloads :
       writers' = [writers EXCEPT ![w] =
                     [@ EXCEPT !.pc = "ready", !.domain = d, !.data = data,
                               !.text = JsonDumps(data), !.ret = "none"]]
  /\ UNCHANGED <<storeVars, clock, firstWrite, wlock, stored, restVars>>

\* SQLite: cursor.execute of writer w takes the write lock and applies the
\* INSERT OR REPLACE inside its open transaction.
WExecute(w) ==
  /\ backend = "sqlite"
  /\ writers[w].pc = "ready"
  /\ WriteLockFree(w)
  /\ \E now \in Now :
       /\ clock' = now
       /\ writers' = [writers EXCEPT ![w] =
                        [@ EXCEPT !.pc = "executed",
                                  !.txn = InsertOrReplace(rows,
                                            writers[w].domain,
                                            writers[w].text, now)]]
  /\ wlock' = w
  /\ UNCHANGED <<storeVars, firstWrite, stored, restVars>>

\* SQLite: another connection holds the write lock for longer than the busy
\* timeout: execute raises "database is locked", store_certificate returns
\* False.
WBusy(w) ==
  /\ backend = "sqlite"
  /\ writers[w].pc = "ready"
  /\ ~WriteLockFree(w)
  /\ writers' = [writers EXCEPT ![w] =
                   [@ EXCEPT !.pc = "idle", !.ret = "False", !.n = @ + 1]]
  /\ UNCHANGED <<storeVars, clock, firstWrite, wlock, stored, restVars>>

\* SQLite: conn.commit() of writer w publishes its transaction and releases
\* the write lock; store_certificate returns True.
WCommit(w) ==
  /\ backend = "sqlite"
  /\ writers[w].pc = "executed"
  /\ rows' = writers[w].txn
  /\ wlock' = 0
  /\ writers' = [writers EXCEPT ![w] =
                   [@ EXCEPT !.pc = "idle", !.ret = "True", !.txn = {},
                             !.n = @ + 1]]
  /\ stored' = [stored EXCEPT ![writers[w].domain] = @ \cup {writers[w].data}]
  /\ firstWrite' = FirstWriteAfter(writers[w].domain, "True", clock)
  /\ UNCHANGED <<backend, kv, clock, restVars>>

\* RocksDB: self.db.put of writer w, one atomic write; store_certificate
\* returns True.
WPut(w) ==
  /\ backend = "rocksdb"
  /\ writers[w].pc = "ready"
  /\ kv' = Put(kv, Encode(writers[w].domain), Encode(writers[w].text))
  /\ writers' = [writers EXCEPT ![w] =
                   [@ EXCEPT !.pc = "idle", !.ret = "True", !.n = @ + 1]]
  /\ stored' = [stored EXCEPT ![writers[w].domain] = @ \cup {writers[w].data}]
  /\ firstWrite' = FirstWriteAfter(writers[w].domain, "True", clock)
  /\ UNCHANGED <<backend, rows, clock, wlock, restVars>>

ConcNext ==
  \E w \in Writers :
    \/ WCall(w)
    \/ WExecute(w)
    \/ WBusy(w)
    \/ WCommit(w)
    \/ WPut(w)

ConcSpec == Init /\ [][ConcNext]_vars

\* ------------------------------------------------------------ claims
\* No frame is half processed: the loop is between frames or has ended.
BetweenFrames == pc \in {"While", "Recv", "Draining", "Closed"}

\* C1: after the collector has processed a sequence of frames in which every
\* upsert succeeded, get_certificate(d) is the payload built from the last
\* certificate_update frame whose all_domains contains d, and is None when
\* no frame named d.
C1_LatestFramePerDomain ==
  (allOk /\ BetweenFrames) =>
    \A d \in Domain : GetCertificate(d) = expected[d]

\* Two update frames were processed; "a" holds the payload of the second,
\* "b" still holds that of the first, which named "a" as well.
C1_Witness ==
  /\ allOk
  /\ pc = "Closed"
  /\ message_count = 2
  /\ message.kind = "certificate_update"
  /\ GetCertificate("a") = <<FramePayload(message)>>
  /\ GetCertificate("b") # <<>>
  /\ GetCertificate("b") # GetCertificate("a")
  /\ "a" \in Range(GetCertificate("b")[1].domains)

\* C2: in both backends, after store_certificate(d, p1) and then
\* store_certificate(d, p2) have succeeded, get_certificate(d) is exactly p2:
\* the last successful write wins and nothing of p1 remains.
C2_LastWriteWins ==
  \A d \in Domain : putLog[d] # <<>> => GetCertificate(d) = LastPut(d)

\* A domain was stored twice with different payloads and reads as the second.
C2_Witness ==
  \E d \in Domain :
    /\ Len(putLog[d]) = 2
    /\ putLog[d][1] # putLog[d][2]
    /\ putLog[d][1].timestamp # putLog[d][2].timestamp
    /\ GetCertificate(d) = <<putLog[d][2]>>

\* C3: a certificate_update frame whose all_domains has n entries causes
\* exactly n store_certificate calls, the i-th for the i-th entry, and every
\* call carries the same payload: domains = the whole all_domains list, and
\* the leaf_cert, chain, source and timestamp of the frame.
C3_OneCallPerDomain ==
  message.kind = "certificate_update" =>
    /\ \A i \in 1..Len(calls) :
         /\ calls[i].domain = message.all_domains[i]
         /\ calls[i].data = FramePayload(message)
    /\ Len(calls) <= Len(message.all_domains)
    /\ pc = "For" => Len(calls) = idx - 1
    /\ BetweenFrames => Len(calls) = Len(message.all_domains)

\* A frame naming two domains has been processed with two calls.
C3_Witness ==
  /\ message.kind = "certificate_update"
  /\ pc = "While"
  /\ Len(calls) = 2
  /\ calls[1].domain # calls[2].domain
  /\ calls[1].data = calls[2].data

C5_CreatedAtSetOnce ==
  \A r \in rows : r.created_at = firstWrite[r.domain]

\* C6: once recv() has raised because the transport is closed, the collector
\* leaves the loop: it does not call recv() on the closed transport again.
C6_NoRecvOnClosedTransport == deadRecvs <= 1

\* The steps connect_and_store can still take before it has ended, at most:
\* the for loop's remaining iterations count one each.
Rank ==
  CASE pc = "Closed" -> 0
    [] pc = "Draining" -> 1
    [] pc = "While" -> 2
    [] pc = "For" -> 4 + Len(message.all_domains) - idx
    [] pc = "Recv" -> 10
    [] pc = "Connecting" -> 11
    [] pc = "Disconnected" -> 12

\* C7: once the signal handler has set running to False, at most one more
\* receive completes (the one of the iteration already entered); the loop
\* head then leaves the loop, a frame under processing is processed to the
\* end of its for loop, and connect_and_store goes on to its end with the
\* websocket released: it always has a step to take (recv() ending with a
\* frame or an error) and every step brings it closer to the end.
C7_CooperativeShutdown ==
  /\ [](stopRecvs <= 1)
  /\ [][(~running /\ pc = "While") => pc' = "Draining"]_vars
  /\ [][pc = "For" => pc' \in {"For", "While"}]_vars
  /\ [](pc = "Closed" /\ handle # "none" => handle = "released")
  /\ [][~running => Rank' < Rank]_vars
  /\ []((~running /\ pc # "Closed") => ENABLED PipelineStep)

\* The flag fell while a receive was pending; that one frame, naming two
\* domains, was received and stored in full, and the collector has ended.
C7_Witness ==
  /\ ~running
  /\ stopRecvs = 1
  /\ deadRecvs = 0
  /\ pc = "Closed"
  /\ handle = "released"
  /\ message.kind = "certificate_update"
  /\ Len(calls) = 2
  /\ FrameOk
  /\ \A i \in 1..2 : GetCertificate(calls[i].domain) = <<FramePayload(message)>>

\* C8: a frame that is not valid JSON, or is JSON but not a mapping, changes
\* neither the store nor message_count and leaves the loop running; every
\* well-formed certificate_update frame delivered, before or after it, is
\* processed and counted.
C8_MalformedFrameSkipped ==
  /\ [][(pc = "Recv" /\ delivered' = delivered + 1
          /\ message'.kind \in {"invalid_json", "json_list"})
        => (rows' = rows /\ kv' = kv /\ message_count' = message_count
              /\ pc' = "While" /\ handle' = handle /\ running' = running)]_vars
  /\ [](BetweenFrames => message_count = nupdates)

\* A certificate_update frame that followed a malformed frame was stored.
C8_Witness ==
  /\ malformed >= 1
  /\ delivered = 2
  /\ message.kind = "certificate_update"
  /\ pc = "While"
  /\ message_count = 1
  /\ Len(calls) >= 1
  /\ FrameOk
  /\ GetCertificate(calls[1].domain) = <<FramePayload(message)>>

\* C9: a store_certificate call that fails does not stop the collector: the
\* for loop goes on to the next domain of the frame, every domain of the
\* frame gets its call, and the frames that follow are processed.
C9_FailedUpsertNotFatal ==
  /\ [][(pc = "For" /\ nfaults' = nfaults + 1)
        => (pc' = "For" /\ idx' = idx + 1 /\ Len(calls') = Len(calls) + 1)]_vars
  /\ []((~allOk /\ BetweenFrames) =>
          /\ message_count = nupdates
          /\ message.kind = "certificate_update" =>
               Len(calls) = Len(message.all_domains))

\* The first upsert of a frame failed and the second was made and stored.
C9_Witness ==
  /\ pc = "While"
  /\ Len(calls) = 2
  /\ calls[1].ret = "False"
  /\ calls[2].ret = "True"
  /\ GetCertificate(calls[2].domain) = <<FramePayload(message)>>

\* C10: store_certificate never raises, in either backend: a payload that
\* cannot be serialized and a store that cannot be opened or written give
\* False, and a write that succeeds gives True.
C10_StoreNeverRaises ==
  last.op = "store" =>
    /\ last.ret \in {"True", "False"}
    /\ last.ret = "True" <=> (last.fault = "none" /\ Serializable(last.data))

\* A payload json.dumps cannot serialize was handed in and False came back.
C10_Witness ==
  /\ last.op = "store"
  /\ ~Serializable(last.data)
  /\ last.fault = "none"
  /\ last.ret = "False"

\* C11: a store_certificate(d, p) call that returns False leaves the store
\* as it was: no row or entry is added, removed or rewritten, so that
\* get_certificate gives for every domain what it gave before the call.
C11_FailedUpsertChangesNothing ==
  [][(ncalls' = ncalls + 1 /\ last'.op = "store" /\ last'.ret = "False")
       => /\ rows' = rows
          /\ kv' = kv
          /\ StoredData(rows', kv') = StoredData(rows, kv)]_vars

\* A store_certificate call failed at commit on a domain that has a record,
\* with another payload than the recorded one, and the record is the one
\* of the last successful call.
C11_Witness ==
  /\ last.op = "store"
  /\ last.ret = "False"
  /\ last.fault \in {"commit", "put"}
  /\ GetCertificate(last.domain) # <<>>
  /\ GetCertificate(last.domain) = LastPut(last.domain)
  /\ GetCertificate(last.domain) # <<last.data>>

\* The rows or entries the store holds.
Records == IF backend = "sqlite" THEN rows ELSE kv

\* The domain a row or entry is keyed by.
KeyOf(rec) == IF backend = "sqlite" THEN rec.domain ELSE Decode(rec.key)

\* The domains some store_certificate call has stored successfully.
Upserted == {d \in Domain : firstWrite[d] # 0}

\* C12: the store holds at most one record per domain, and the number of its
\* records is the number of distinct domains upserted successfully so far.
C12_OneRecordPerDomain ==
  /\ \A d \in Domain : Cardinality({rec \in Records : KeyOf(rec) = d}) <= 1
  /\ Cardinality(Records) = Cardinality(Upserted)

\* Two frames, the second naming one domain twice, with every upsert
\* successful, have left two records, in SQLite written at two seconds.
C12_Witness ==
  /\ nupdates = 2
  /\ BetweenFrames
  /\ allOk
  /\ Len(calls) = 2
  /\ calls[1].domain = calls[2].domain
  /\ Cardinality(Records) = 2
  /\ \E rec \in Records : KeyOf(rec) = "a"
  /\ backend = "sqlite" => \E r1 \in rows, r2 \in rows : r1.updated_at < r2.updated_at

\* C13: get_certificate(d) is None exactly as long as no upsert of d has
\* succeeded, and a record, once stored, is never removed: the set of stored
\* domains only grows.
C13_RecordLifecycle ==
  /\ [](\A d \in Domain : (GetCertificate(d) = <<>>) <=> (firstWrite[d] = 0))
  /\ []((last.op = "get") =>
          ((last.ret = "None") <=> (firstWrite[last.domain] = 0)))
  /\ [][StoredDomains \subseteq StoredDomains']_vars

\* The last of the direct calls is a get_certificate that finds its record,
\* both domains having been stored before.
C13_Witness ==
  /\ last.op = "get"
  /\ last.ret = "found"
  /\ ncalls = MaxCalls
  /\ StoredDomains = Domain

\* C14: on both backends and for every limit N >= 0, 0 included,
\* get_all_certificates(limit=N) returns at most N records, and exactly
\* min(N, number of stored records) when every stored record decodes.
C14_LimitBoundsTheListing ==
  (last.op = "list" /\ listing.limit >= 0) =>
    /\ Len(listing.result) <= listing.limit
    /\ (\A rec \in Records :
          Decodable(IF backend = "sqlite" THEN rec.data ELSE Decode(rec.value)))
         => Len(listing.result) = Min(listing.limit, Cardinality(Records))

\* get_all_certificates(limit=1) returned one record of a store that holds
\* two.
C14_Witness ==
  /\ last.op = "list"
  /\ listing.limit = 1
  /\ Cardinality(Records) = 2
  /\ Len(listing.result) = 1

\* The place of domain d in the order of last successful upserts (0: never
\* upserted): a later upsert has the greater place.
UpsertRank(d) ==
  IF \E i \in 1..Len(recency) : recency[i] = d
  THEN CHOOSE i \in 1..Len(recency) : recency[i] = d
  ELSE 0

\* The rows a listing has left out.
NotListed == {r \in rows : \A i \in 1..Len(listing.result) :
                              listing.result[i].domain # r.domain}

\* C15 as stated: in the relational backend the listing has non-increasing
\* updated_at, holds the N rows of greatest updated_at, and so never shows a
\* domain upserted later after (or leaves it out for) a domain whose last
\* upsert was earlier.
C15_LaterUpsertNeverAfterEarlier ==
  (last.op = "list" /\ backend = "sqlite") =>
    LET res == listing.result
    IN /\ \A i \in 1..Len(res), j \in 1..Len(res) :
            i < j => /\ res[i].updated_at >= res[j].updated_at
                     /\ UpsertRank(res[i].domain) > UpsertRank(res[j].domain)
       /\ \A r \in NotListed, i \in 1..Len(res) :
            /\ r.updated_at <= res[i].updated_at
            /\ UpsertRank(r.domain) < UpsertRank(res[i].domain)

\* C15, amended: in the relational backend the listing has non-increasing
\* updated_at and holds the N rows of greatest updated_at; a domain upserted
\* later comes after, or is left out for, a domain upserted earlier only
\* when both were last upserted within the same second.
C15_OrderedByUpdatedAt ==
  (last.op = "list" /\ backend = "sqlite") =>
    LET res == listing.result
    IN /\ \A i \in 1..Len(res), j \in 1..Len(res) :
            i < j => /\ res[i].updated_at >= res[j].updated_at
                     /\ (UpsertRank(res[i].domain) < UpsertRank(res[j].domain)
                           => res[i].updated_at = res[j].updated_at)
       /\ \A r \in NotListed, i \in 1..Len(res) :
            /\ r.updated_at <= res[i].updated_at
            /\ (UpsertRank(r.domain) > UpsertRank(res[i].domain)
                  => r.updated_at = res[i].updated_at)

\* get_all_certificates(limit=1) on two rows written at different seconds
\* returned the row of the later upsert.
C15_Witness ==
  /\ last.op = "list"
  /\ backend = "sqlite"
  /\ listing.limit = 1
  /\ Len(listing.result) = 1
  /\ \E r \in NotListed :
       /\ r.updated_at < listing.result[1].updated_at
       /\ UpsertRank(r.domain) < UpsertRank(listing.result[1].domain)

\* Frames that parse as a mapping whose message_type is not
\* certificate_update: a heartbeat, another type, no type.
NotAnUpdate == {"heartbeat", "unknown_type", "no_type"}

\* C16: receiving a frame whose message_type is not certificate_update (a
\* heartbeat, an unknown type, no type) makes no storage call and leaves the
\* store and the count of processed updates unchanged: the loop is back at
\* its head.
C16_OtherFramesStoreNothing ==
  [][(pc = "Recv" /\ delivered' = delivered + 1 /\ message'.kind \in NotAnUpdate)
       => /\ pc' = "While"
          /\ calls' = <<>>
          /\ rows' = rows
          /\ kv' = kv
          /\ firstWrite' = firstWrite
          /\ message_count' = message_count]_vars

\* A heartbeat was received after a certificate_update frame had been stored
\* and counted; the record and the count are still there.
C16_Witness ==
  /\ pc = "While"
  /\ message.kind = "heartbeat"
  /\ delivered = 2
  /\ message_count = 1
  /\ calls = <<>>
  /\ Records # {}

\* The handshake of websockets.connect failed.
HandshakeFailed == pc = "Closed" /\ handle = "none"

C18_InitIdempotent ==
  (last.op = "init" /\ StoredDomains # {}) =>
    /\ last.ret = "ok"
    /\ \A d \in Domain : GetCertificate(d) = LastPut(d)

\* C19: when two writers upsert concurrently on one shared backend, in every
\* interleaving get_certificate(d) is exactly one of the payloads that were
\* upserted successfully for d, never a mixture and never None, and the
\* upserts of other domains are not lost.
C19_ConcurrentUpsertsKeepOne ==
  \A d \in Domain :
    /\ stored[d] = {} => GetCertificate(d) = <<>>
    /\ stored[d] # {} => \E p \in stored[d] : GetCertificate(d) = <<p>>

\* Both domains hold a record, and two upserts of the same domain with
\* different payloads overlap: one writer has executed and not committed,
\* the other is about to execute.
C19_Witness ==
  \E w1 \in Writers, w2 \in Writers :
    /\ writers[w1].pc = "executed"
    /\ writers[w2].pc = "ready"
    /\ writers[w1].domain = writers[w2].domain
    /\ writers[w1].data # writers[w2].data
    /\ \A d \in Domain : stored[d] # {} /\ GetCertificate(d) # <<>>

\* The state of the pipeline: Streaming while the receive loop runs.
StateOf(p) == IF p \in {"While", "Recv", "For"} THEN "Streaming" ELSE p

\* The place of a state on Disconnected, Connecting, Streaming, Draining,
\* Closed.
StateRank(p) ==
  CASE StateOf(p) = "Disconnected" -> 0
    [] StateOf(p) = "Connecting" -> 1
    [] StateOf(p) = "Streaming" -> 2
    [] StateOf(p) = "Draining" -> 3
    [] StateOf(p) = "Closed" -> 4

\* C20: the pipeline state only moves forward along Disconnected,
\* Connecting, Streaming, Draining, Closed: a run makes at most one
\* connection attempt, never re-enters Connecting after a transport failure,
\* and a failed handshake takes it from Connecting straight to Closed with
\* no storage call.
C20_StateOnlyMovesForward ==
  /\ [][StateRank(pc') >= StateRank(pc)]_vars
  /\ [][(pc = "Connecting" /\ pc' # "Connecting")
          => (handle = "none" /\ delivered = 0
              /\ (handle' = "open" \/ pc' = "Closed"))]_vars
  /\ [](handle # "none" => StateRank(pc) >= 2)
  /\ [](deadRecvs >= 1 => StateRank(pc) >= 2)
  /\ [][(pc = "Connecting" /\ handle' = "none" /\ pc' # "Connecting")
          => (pc' = "Closed" /\ rows' = rows /\ kv' = kv)]_vars
  /\ [](HandshakeFailed
          => (Records = {} /\ calls = <<>> /\ message_count = 0
              /\ firstWrite = NoFirstWrite))

\* The run is Closed after a transport failure during streaming, the handle
\* released, with a stored update behind it.
C20_Witness ==
  /\ pc = "Closed"
  /\ handle = "released"
  /\ deadRecvs >= 1
  /\ message_count >= 1
  /\ Records # {}

\* The records of the store that decode.
DecodableRecords == {rec \in Records : RecordDecodes(rec)}

\* C21: on both backends get_all_certificates over a store that holds a
\* record whose text does not decode skips that record and returns the
\* decodable records, up to the limit: every returned record is decodable
\* and, the limit allowing, no decodable record is missing.
C21_ScanSkipsUndecodable ==
  (last.op = "list" /\ listing.limit >= 0 /\ DecodableRecords # Records) =>
    /\ \A i \in 1..Len(listing.result) :
         \E rec \in DecodableRecords : KeyOf(rec) = listing.result[i].domain
    /\ Len(listing.result)
         = Min(listing.limit, Cardinality(DecodableRecords))

\* C22: upserts are issued one after the other in input order: each call of
\* a certificate_update frame is for the next entry of its all_domains list,
\* the next frame is received only when every entry of the frame before has
\* had its call, and a domain that the list repeats gets one call per
\* occurrence, none of which raises, and ends with the payload of the frame.
C22_UpsertsInInputOrder ==
  /\ [][Len(calls') = Len(calls) + 1
          => /\ pc = "For"
             /\ message' = message
             /\ delivered' = delivered
             /\ SubSeq(calls', 1, Len(calls)) = calls
             /\ calls'[Len(calls')].domain = message.all_domains[Len(calls) + 1]
             /\ calls'[Len(calls')].ret # "raise"]_vars
  /\ [][delivered' = delivered + 1
          => /\ pc = "Recv"
             /\ message.kind = "certificate_update"
                  => Len(calls) = Len(message.all_domains)]_vars
  /\ []((message.kind = "certificate_update" /\ BetweenFrames /\ FrameOk)
          => \A d \in Range(message.all_domains) :
               GetCertificate(d) = <<FramePayload(message)>>)

\* The second frame received names "b" twice: it has had two successful
\* calls for "b", and "b" holds the payload of that frame.
C22_Witness ==
  /\ delivered = 2
  /\ nupdates = 2
  /\ pc = "While"
  /\ message.all_domains = <<"b", "b">>
  /\ Len(calls) = 2
  /\ FrameOk
  /\ GetCertificate("b") = <<FramePayload(message)>>

\* get_certificate(d) on the store with rows table and entries db.
GetFrom(table, db, d) ==
  IF backend = "sqlite" THEN SqliteGetCertificate(table, d)
  ELSE RocksGetCertificate(db, d)

\* The text stored for d in rows table and entries db.
TextOf(table, db, d) == {x \in StoredData(table, db) : x[1] = d}

\* C23: in a store written only by the collector every record is
\* self-consistent: the "domains" list of get_certificate(d) contains d, and
\* it is the all_domains list of the frame that last wrote d: the record of
\* d changes only by a successful call for d, which leaves the list of the
\* frame being processed.
C23_RecordNamesItsDomain ==
  /\ [](\A d \in StoredDomains :
          \A g \in {GetCertificate(d)} :
            /\ g # <<>>
            /\ d \in Range(g[1].domains)
            /\ g[1].domains = g[1].leaf_cert.all_domains)
  /\ [][\A d \in Domain :
          TextOf(rows', kv', d) # TextOf(rows, kv, d)
            => /\ pc = "For"
               /\ Len(calls') = Len(calls) + 1
               /\ calls'[Len(calls')].domain = d
               /\ calls'[Len(calls')].ret = "True"]_vars
  /\ [][(Len(calls') = Len(calls) + 1 /\ calls'[Len(calls')].ret = "True")
          => \A g \in {GetFrom(rows', kv', calls'[Len(calls')].domain)} :
               /\ g # <<>>
               /\ g[1].domains = message.all_domains]_vars

\* After two frames the record of "b" lists "a" and "b", the names of the
\* second frame, and the record of "a" comes from that frame as well.
C23_Witness ==
  /\ delivered = 2
  /\ nupdates = 2
  /\ pc = "While"
  /\ message.all_domains = <<"a", "b">>
  /\ FrameOk
  /\ GetCertificate("b") # <<>>
  /\ GetCertificate("b")[1].domains = <<"a", "b">>
  /\ GetCertificate("a") = GetCertificate("b")

====
